---- MODULE Spec2Model ----
(***************************************************************************)
(* Model of src/src/memory.rs: the Buffer hand-off of a Vec<u8> across the *)
(* FFI boundary (from_vec / with_capacity / read / consume / free_rust),   *)
(* together with the allocator and the owned vectors the code acts on.     *)
(***************************************************************************)
EXTENDS Integers, Sequences, FiniteSets, TLC

\* ------------------------------------------------------------- bounds
MaxCap == 2         \* largest capacity of a vector
MaxTokens == 2      \* Buffers issued by from_vec / with_capacity
MaxVecs == 1        \* vectors returned by consume that are alive at once
MaxConsumes == 2    \* consume / free_rust calls on one token

\* the bytes of a vector of len elements: 0xAA, 0xBB, 0xCC, ... as in
\* test::read_works, a different value at every position
Payload(len) == [i \in 1..len |-> 170 + 17 * (i - 1)]

\* bytes that no payload holds, as a read of freed memory may find them
Garbage(len) == [i \in 1..len |-> 0]

\* content of reserved but unwritten storage
Uninit == -1

\* pointer of a Vec that never allocated (capacity 0)
Dangling == 0

\* addresses the allocator hands out: one for every allocation that can be
\* alive at once
Addrs == 1..(MaxTokens + MaxVecs)

VARIABLES
    heap,      \* allocator: address -> [alloc, cap, data]
    heapOk,    \* FALSE once the allocator was handed an invalid dealloc
    vecs,      \* the vectors consume returned that their callers still hold:
               \* sequence of [ptr, len, cap, tok]
    tokens,    \* issued Buffers, index = token id: the Buffer's fields (buf),
               \* the vector it was built from (orig, bytes), its lifecycle
               \* (state), the consume calls made on it (consumes), the
               \* allocator calls made for it (drops), a view of it being
               \* outstanding (view)
    ret,       \* the last operation and what it returned
    proc       \* "running" | "aborted"

vars == <<heap, heapOk, vecs, tokens, ret, proc>>

\* ------------------------------------------------------------- helpers
None == <<>>
Some(x) == <<x>>

RemoveAt(s, i) == [j \in 1..(Len(s) - 1) |-> IF j < i THEN s[j] ELSE s[j + 1]]

FreeBlock == [alloc |-> FALSE, cap |-> 0, data |-> <<>>]

\* the address the allocator returns next: the lowest free one, so that a
\* freed address is handed out again at once (the case in which a stale
\* Buffer and a new one hold the same pointer)
FreeAddrs(h) ==
    LET free == {a \in Addrs : ~h[a].alloc}
    IN  {a \in free : \A b \in free : a <= b}

\* the allocator's alloc: address a becomes a block of cap bytes holding bytes
\* followed by unwritten storage
Alloc(h, a, cap, bytes) ==
    [h EXCEPT ![a] = [alloc |-> TRUE, cap |-> cap,
                      data |-> [i \in 1..cap |->
                                   IF i <= Len(bytes) THEN bytes[i] ELSE Uninit]]]

\* the allocator's dealloc(ptr, cap): the outcomes it can have.  A call with
\* a pointer that is not an allocated block of that size is undefined
\* behaviour: the allocator may abort, or go on with a corrupted heap (and,
\* when the block is allocated with another size, may free it).
Dealloc(h, ptr, cap) ==
    IF ptr \in Addrs /\ h[ptr].alloc /\ h[ptr].cap = cap
    THEN {[heap |-> [h EXCEPT ![ptr] = FreeBlock], ok |-> TRUE, aborted |-> FALSE]}
    ELSE {[heap |-> h, ok |-> FALSE, aborted |-> FALSE],
          [heap |-> h, ok |-> FALSE, aborted |-> TRUE]}
         \cup (IF ptr \in Addrs /\ h[ptr].alloc
               THEN {[heap |-> [h EXCEPT ![ptr] = FreeBlock],
                      ok |-> FALSE, aborted |-> FALSE]}
               ELSE {})

\* Vec<u8>'s destructor: no allocator call when the capacity is 0
drop_vec(v, h) ==
    IF v.cap = 0
    THEN {[heap |-> h, ok |-> TRUE, aborted |-> FALSE, calls |-> <<>>]}
    ELSE {[heap |-> o.heap, ok |-> o.ok, aborted |-> o.aborted,
           calls |-> <<[ptr |-> v.ptr, cap |-> v.cap]>>] : o \in Dealloc(h, v.ptr, v.cap)}

\* Vec::with_capacity(n), its storage at address a when n > 0
Vec_with_capacity(n, a) ==
    [ptr |-> IF n = 0 THEN Dangling ELSE a, len |-> 0, cap |-> n, tok |-> 0]

\* Vec::from_raw_parts(ptr, len, cap)
Vec_from_raw_parts(ptr, len, cap) == [ptr |-> ptr, len |-> len, cap |-> cap]

\* the bytes a vector or buffer of len bytes at ptr holds
Contents(h, ptr, len) ==
    IF len = 0 \/ ptr \notin Addrs THEN <<>>
    ELSE [i \in 1..len |-> IF i <= Len(h[ptr].data) THEN h[ptr].data[i] ELSE Uninit]

\* the memory of len > 0 bytes at ptr is allocated and initialized
ValidRun(h, ptr, len) ==
    /\ ptr \in Addrs
    /\ h[ptr].alloc
    /\ len <= h[ptr].cap
    /\ \A i \in 1..len : h[ptr].data[i] # Uninit

\* slice::from_raw_parts(ptr, len) and the read of it: the contents when the
\* run is valid; otherwise (dangling pointer) undefined behaviour: the
\* bytes that were there, other bytes, or a fault
slice_from_raw_parts(h, ptr, len) ==
    IF ValidRun(h, ptr, len)
    THEN {[fault |-> FALSE, bytes |-> Contents(h, ptr, len)]}
    ELSE {[fault |-> FALSE, bytes |-> Payload(len)],
          [fault |-> FALSE, bytes |-> Garbage(len)],
          [fault |-> TRUE, bytes |-> <<>>]}

\* ------------------------------------------------------------- Buffer
\* mem::ManuallyDrop::new(v): the wrapper never runs v's destructor
ManuallyDrop_armed(v) == [armed |-> TRUE, inner |-> v]

ManuallyDrop_new(v) == [armed |-> FALSE, inner |-> v]

\* Buffer::from_vec: the Buffer, and whether v's destructor runs at the end
from_vec_len_as_cap(v) ==
    LET w == ManuallyDrop_new(v)
    IN  [buf |-> [ptr |-> w.inner.ptr, len |-> w.inner.len, cap |-> w.inner.len],
         drops |-> w.armed]

from_vec(v) ==
    LET w == ManuallyDrop_new(v)
    IN  [buf |-> [ptr |-> w.inner.ptr, len |-> w.inner.len, cap |-> w.inner.cap],
         drops |-> w.armed]

\* Buffer::with_capacity
with_capacity_empty(capacity, a) == from_vec(Vec_with_capacity(0, a))

with_capacity(capacity, a) == from_vec(Vec_with_capacity(capacity, a))

\* Buffer::read: the results it can have
read_zero_len_view(b, h) ==
    IF b.len = 0 /\ b.cap = 0
    THEN {[fault |-> FALSE, view |-> None]}
    ELSE {[fault |-> s.fault, view |-> IF s.fault THEN None ELSE Some(s.bytes)] :
             s \in slice_from_raw_parts(h, b.ptr, b.len)}

read(b, h) ==
    IF b.len = 0
    THEN {[fault |-> FALSE, view |-> None]}
    ELSE {[fault |-> s.fault, view |-> IF s.fault THEN None ELSE Some(s.bytes)] :
             s \in slice_from_raw_parts(h, b.ptr, b.len)}

\* Buffer::consume: the vector returned to the caller, and the heap
consume_len_as_cap(b, h) ==
    [vec |-> Vec_from_raw_parts(b.ptr, b.len, b.len), heap |-> h]

consume_fresh(b, h) ==
    [vec |-> Vec_from_raw_parts(Dangling, 0, 0), heap |-> h]

consume_and_drop(b, h) ==
    [vec |-> Vec_from_raw_parts(b.ptr, b.len, b.cap),
     heap |-> IF b.ptr \in Addrs THEN [h EXCEPT ![b.ptr] = FreeBlock] ELSE h]

consume(b, h) ==
    [vec |-> Vec_from_raw_parts(b.ptr, b.len, b.cap), heap |-> h]

\* free_rust: let _ = buf.consume(); the vector is dropped in the statement
free_rust_forget(b, h) ==
    {[heap |-> consume(b, h).heap, ok |-> TRUE, aborted |-> FALSE, calls |-> <<>>]}

free_rust_guarded(b, h) ==
    LET c == consume(b, h)
    IN  IF c.vec.ptr \in Addrs /\ ~c.heap[c.vec.ptr].alloc
        THEN {[heap |-> c.heap, ok |-> TRUE, aborted |-> FALSE, calls |-> <<>>]}
        ELSE drop_vec(c.vec, c.heap)

free_rust(b, h) ==
    LET c == consume(b, h) IN drop_vec(c.vec, c.heap)

\* ------------------------------------------------------------- state
NoRet == [op |-> "none", tok |-> 0, vec |-> None, view |-> None, calls |-> <<>>]

Init ==
    /\ heap = [a \in Addrs |-> FreeBlock]
    /\ heapOk = TRUE
    /\ vecs = <<>>
    /\ tokens = <<>>
    /\ ret = NoRet
    /\ proc = "running"

Issued == 1..Len(tokens)

\* the token record of a Buffer just issued for vector v holding bytes
NewToken(b, v, bytes) ==
    [buf |-> b, orig |-> [ptr |-> v.ptr, len |-> v.len, cap |-> v.cap],
     bytes |-> bytes, state |-> "live",
     consumes |-> 0, drops |-> 0, view |-> FALSE]

\* the caller's side of the safety contract of consume and read
MayConsume(t, strict) ==
    /\ tokens[t].consumes < MaxConsumes
    /\ strict => tokens[t].state = "live" /\ ~tokens[t].view

MayRead(t, strict) ==
    strict => tokens[t].state = "live"

\* ------------------------------------------------------------- actions
\* Buffer::from_vec(v) for a vector v the owning side has built (vec![..]
\* and reserve_exact): len bytes, capacity cap
FromVec(cap, len) ==
    /\ proc = "running"
    /\ Len(tokens) < MaxTokens
    /\ len <= cap
    /\ \E a \in (IF cap = 0 THEN {Dangling} ELSE FreeAddrs(heap)) :
         LET v == [ptr |-> a, len |-> len, cap |-> cap, tok |-> 0]
             h == IF cap = 0 THEN heap ELSE Alloc(heap, a, cap, Payload(len))
             r == from_vec(v)
         IN  /\ tokens' = Append(tokens,
                    NewToken(r.buf, v, Contents(h, v.ptr, v.len)))
             /\ \E o \in (IF r.drops THEN drop_vec(v, h)
                          ELSE {[heap |-> h, ok |-> TRUE, aborted |-> FALSE, calls |-> <<>>]}) :
                  /\ heap' = o.heap
                  /\ heapOk' = (heapOk /\ o.ok)
                  /\ proc' = IF o.aborted THEN "aborted" ELSE proc
                  /\ ret' = [NoRet EXCEPT !.op = "from_vec", !.tok = Len(tokens) + 1,
                                          !.calls = o.calls]
    /\ UNCHANGED vecs

\* Buffer::with_capacity(n)
WithCapacity(n) ==
    /\ proc = "running"
    /\ Len(tokens) < MaxTokens
    /\ \E a \in (IF n = 0 THEN {Dangling} ELSE FreeAddrs(heap)) :
         LET r == with_capacity(n, a)
             v == [ptr |-> r.buf.ptr, len |-> r.buf.len, cap |-> r.buf.cap]
         IN  /\ heap' = IF r.buf.cap = 0 THEN heap ELSE Alloc(heap, a, r.buf.cap, <<>>)
             /\ tokens' = Append(tokens,
                    NewToken(r.buf, [ptr |-> IF n = 0 THEN Dangling ELSE a, len |-> 0, cap |-> n],
                             <<>>))
             /\ ret' = [NoRet EXCEPT !.op = "with_capacity", !.tok = Len(tokens) + 1]
    /\ UNCHANGED <<heapOk, vecs, proc>>

\* #[derive(Copy, Clone)]: a Buffer value of token t is copied (it crosses
\* the boundary by value); the copy is the same three fields
CopyBuffer(t) ==
    /\ proc = "running"
    /\ ret' = [NoRet EXCEPT !.op = "copy", !.tok = t]
    /\ UNCHANGED <<heap, heapOk, vecs, tokens, proc>>

\* a Buffer value of token t goes out of scope: Buffer has no destructor
DropBuffer(t) ==
    /\ proc = "running"
    /\ ret' = [NoRet EXCEPT !.op = "drop_buffer"]
    /\ UNCHANGED <<heap, heapOk, vecs, tokens, proc>>

\* Buffer::read on a value of token t
Read(t, strict) ==
    /\ proc = "running"
    /\ MayRead(t, strict)
    /\ \E o \in read(tokens[t].buf, heap) :
         /\ proc' = IF o.fault THEN "aborted" ELSE proc
         /\ tokens' = [tokens EXCEPT ![t].view = (@ \/ o.view # None)]
         /\ ret' = [NoRet EXCEPT !.op = "read", !.tok = t, !.view = o.view]
    /\ UNCHANGED <<heap, heapOk, vecs>>

\* a view returned by read goes out of scope
DropView(t) ==
    /\ proc = "running"
    /\ tokens[t].view
    /\ tokens' = [tokens EXCEPT ![t].view = FALSE]
    /\ ret' = NoRet
    /\ UNCHANGED <<heap, heapOk, vecs, proc>>

\* Buffer::consume on a value of token t; the caller keeps the vector
Consume(t, strict) ==
    /\ proc = "running"
    /\ MayConsume(t, strict)
    /\ Len(vecs) < MaxVecs
    /\ LET b == tokens[t].buf
           c == consume(b, heap)
       IN  /\ heap' = c.heap
           /\ vecs' = Append(vecs, [ptr |-> c.vec.ptr, len |-> c.vec.len,
                                    cap |-> c.vec.cap, tok |-> t])
           /\ tokens' = [tokens EXCEPT
                           ![t].consumes = @ + 1,
                           ![t].state = IF c.vec.ptr = b.ptr THEN "consumed" ELSE @]
           /\ ret' = [NoRet EXCEPT !.op = "consume", !.tok = t, !.vec = Some(c.vec)]
    /\ UNCHANGED <<heapOk, proc>>

\* free_rust on a value of token t
FreeRust(t, strict) ==
    /\ proc = "running"
    /\ MayConsume(t, strict)
    /\ LET b == tokens[t].buf
       IN  \E o \in free_rust(b, heap) :
             /\ heap' = o.heap
             /\ heapOk' = (heapOk /\ o.ok)
             /\ proc' = IF o.aborted THEN "aborted" ELSE proc
             /\ tokens' = [tokens EXCEPT
                             ![t].consumes = @ + 1,
                             ![t].state = IF consume(b, heap).vec.ptr = b.ptr
                                          THEN "consumed" ELSE @,
                             ![t].drops = @ + Len(o.calls)]
             /\ ret' = [NoRet EXCEPT !.op = "free_rust", !.tok = t, !.calls = o.calls]
    /\ UNCHANGED vecs

\* an owned vector goes out of scope
DropVec(i) ==
    /\ proc = "running"
    /\ LET v == vecs[i]
       IN  \E o \in drop_vec(v, heap) :
             /\ heap' = o.heap
             /\ heapOk' = (heapOk /\ o.ok)
             /\ proc' = IF o.aborted THEN "aborted" ELSE proc
             /\ vecs' = RemoveAt(vecs, i)
             /\ tokens' = IF v.tok = 0 THEN tokens
                          ELSE [tokens EXCEPT ![v.tok].drops = @ + Len(o.calls)]
             /\ ret' = [NoRet EXCEPT !.op = "drop_vec", !.tok = v.tok, !.calls = o.calls]

\* callers that keep the safety contract of consume and read
Next ==
    \/ \E cap \in 0..MaxCap, len \in 0..MaxCap : FromVec(cap, len)
    \/ \E n \in 0..MaxCap : WithCapacity(n)
    \/ \E t \in Issued : CopyBuffer(t)
    \/ \E t \in Issued : DropBuffer(t)
    \/ \E t \in Issued : Read(t, TRUE)
    \/ \E t \in Issued : DropView(t)
    \/ \E t \in Issued : Consume(t, TRUE)
    \/ \E t \in Issued : FreeRust(t, TRUE)
    \/ \E i \in 1..Len(vecs) : DropVec(i)

Spec == Init /\ [][Next]_vars

\* callers that may break it: nothing in the code stops them
NextUnchecked ==
    \/ \E cap \in 0..MaxCap, len \in 0..MaxCap : FromVec(cap, len)
    \/ \E n \in 0..MaxCap : WithCapacity(n)
    \/ \E t \in Issued : CopyBuffer(t)
    \/ \E t \in Issued : DropBuffer(t)
    \/ \E t \in Issued : Read(t, FALSE)
    \/ \E t \in Issued : DropView(t)
    \/ \E t \in Issued : Consume(t, FALSE)
    \/ \E t \in Issued : FreeRust(t, FALSE)
    \/ \E i \in 1..Len(vecs) : DropVec(i)

SpecUnchecked == Init /\ [][NextUnchecked]_vars


\* ------------------------------------------------------------- claims
Fields(x) == [ptr |-> x.ptr, len |-> x.len, cap |-> x.cap]

Held(t) == {i \in 1..Len(vecs) : vecs[i].tok = t}

\* C1: round trip.  The vector consume returns for a Buffer that from_vec
\* built from v has v's pointer, length and capacity and holds v's bytes, in
\* v's allocation (no copy), reserved capacity included.
C1_RoundTrip ==
    \A t \in Issued :
        (ret.op = "consume" /\ ret.tok = t) =>
            LET r == ret.vec[1]
                o == tokens[t].orig
            IN  /\ r = o
                /\ Contents(heap, r.ptr, r.len) = tokens[t].bytes
                /\ o.cap > 0 => heap[r.ptr].alloc /\ heap[r.ptr].cap = o.cap
                /\ o.cap = 0 => r.ptr = Dangling

C1_Witness ==
    \E t \in Issued :
        /\ ret.op = "consume" /\ ret.tok = t
        /\ tokens[t].orig.len > 0
        /\ tokens[t].orig.len < tokens[t].orig.cap

\* C2: read returns None exactly when len = 0, whatever the capacity and the
\* pointer, and otherwise a view of len bytes that are the bytes of the
\* vector the Buffer was built from, in order.
C2_Read ==
    \A t \in Issued :
        (ret.op = "read" /\ ret.tok = t) =>
            LET b == tokens[t].buf
            IN  /\ (ret.view = None) <=> (b.len = 0)
                /\ b.len > 0 => /\ ret.view = Some(tokens[t].bytes)
                                /\ Len(ret.view[1]) = b.len
                                /\ ret.view[1] = Payload(b.len)

C2_Witness ==
    \E t, u \in Issued :
        /\ ret.op = "read" /\ ret.tok = t /\ ret.view = None
        /\ tokens[t].buf.len = 0 /\ tokens[t].buf.cap > 0
        /\ tokens[u].buf.len > 1 /\ tokens[u].view

\* C3: an exported allocation whose token was not consumed is still
\* allocated, holds its bytes and is owned by no vector, whatever from_vec,
\* copies, drops of copies and reads happened since.
C3_OnlyConsumeFrees ==
    \A t \in Issued :
        LET b == tokens[t].buf
        IN  (tokens[t].state = "live" /\ b.cap > 0) =>
                /\ b.ptr \in Addrs
                /\ heap[b.ptr].alloc
                /\ heap[b.ptr].cap = b.cap
                /\ Contents(heap, b.ptr, b.len) = tokens[t].bytes
                /\ tokens[t].drops = 0
                /\ \A i \in 1..Len(vecs) : vecs[i].ptr # b.ptr
                /\ \A u \in Issued \ {t} :
                       tokens[u].state = "live" => tokens[u].buf.ptr # b.ptr

C3_Witness ==
    \E t \in Issued :
        /\ tokens[t].state = "live" /\ tokens[t].buf.cap > 0
        /\ tokens[t].buf.len > 0
        /\ tokens[t].view
        /\ ret.op = "drop_buffer"

\* C4: free_rust on a live token returns nothing and, when the token has an
\* allocation, has deallocated it once, with the pointer and the capacity
\* recorded at construction.
C4_FreeRust ==
    \A t \in Issued :
        (ret.op = "free_rust" /\ ret.tok = t) =>
            LET b == tokens[t].buf
            IN  /\ ret.vec = None
                /\ Held(t) = {}
                /\ tokens[t].state = "consumed"
                /\ heapOk
                /\ b.cap = 0 => ret.calls = <<>> /\ tokens[t].drops = 0
                /\ b.cap > 0 =>
                     /\ ret.calls = <<[ptr |-> tokens[t].orig.ptr, cap |-> tokens[t].orig.cap]>>
                     /\ tokens[t].drops = 1
                     /\ ~heap[b.ptr].alloc

C4_Witness ==
    \E t \in Issued :
        /\ ret.op = "free_rust" /\ ret.tok = t
        /\ tokens[t].buf.len > 0 /\ tokens[t].buf.len < tokens[t].buf.cap
        /\ tokens[t].drops = 1

\* C5: a token is live when issued, becomes consumed in a consume or
\* free_rust step on it and in no other step, and once consumed stays
\* consumed, whatever is done later with it or with other tokens.
C5_Step ==
    \A t \in 1..Len(tokens') :
        IF t > Len(tokens)
        THEN /\ tokens'[t].state = "live"
             /\ ret'.op \in {"from_vec", "with_capacity"}
             /\ ret'.tok = t
        ELSE /\ tokens[t].state = "consumed" => tokens'[t].state = "consumed"
             /\ (tokens[t].state = "live" /\ tokens'[t].state = "consumed") =>
                    ret'.op \in {"consume", "free_rust"} /\ ret'.tok = t
             /\ (ret'.op \in {"consume", "free_rust"} /\ ret'.tok = t) =>
                    tokens'[t].state = "consumed"

C6_Original ==
    \A t \in Issued :
        (ret.op = "consume" /\ ret.tok = t /\ tokens[t].buf.cap > 0) =>
            ~heap[tokens[t].buf.ptr].alloc

\* C6 amended: consume hands the reconstructed vector to its caller and
\* deallocates nothing; the allocation is deallocated when that vector is
\* dropped.
C6_Amended ==
    \A t \in Issued :
        LET b == tokens[t].buf
        IN  /\ (ret.op = "consume" /\ ret.tok = t) =>
                /\ ret.vec = Some(Fields(b))
                /\ ret.calls = <<>>
                /\ Len(vecs) > 0
                /\ Fields(vecs[Len(vecs)]) = Fields(b)
                /\ vecs[Len(vecs)].tok = t
                /\ tokens[t].drops = 0
                /\ b.cap > 0 => heap[b.ptr].alloc /\ heap[b.ptr].cap = b.cap
            /\ (ret.op = "drop_vec" /\ ret.tok = t /\ b.cap > 0) =>
                /\ ret.calls = <<[ptr |-> b.ptr, cap |-> b.cap]>>
                /\ tokens[t].drops = 1
                /\ ~heap[b.ptr].alloc

C6_Witness ==
    \E t \in Issued :
        /\ ret.op = "consume" /\ ret.tok = t
        /\ tokens[t].buf.cap > 0
        /\ heap[tokens[t].buf.ptr].alloc

C8_FromVecFields ==
    \A t \in Issued :
        /\ tokens[t].buf = tokens[t].orig
        /\ 0 <= tokens[t].buf.len
        /\ tokens[t].buf.len <= tokens[t].buf.cap

C8_Witness ==
    \E t \in Issued :
        /\ ret.op = "from_vec" /\ ret.tok = t
        /\ tokens[t].orig.len > 0
        /\ tokens[t].orig.len < tokens[t].orig.cap

\* C9: with_capacity(n) returns len = 0 and cap = n, with storage of its own
\* when n > 0; read on such a Buffer returns None; consume on it returns a
\* vector of length 0 and capacity n.
C9_WithCapacity ==
    \A t \in Issued :
        LET n == tokens[t].orig.cap
            b == tokens[t].buf
        IN  /\ (ret.op = "with_capacity" /\ ret.tok = t) =>
                /\ b.len = 0
                /\ b.cap = n
                /\ n > 0 => b.ptr \in Addrs /\ heap[b.ptr].alloc /\ heap[b.ptr].cap = n
            /\ (b.len = 0 /\ ret.op = "read" /\ ret.tok = t) => ret.view = None
            /\ (b.len = 0 /\ ret.op = "consume" /\ ret.tok = t) =>
                   ret.vec[1].len = 0 /\ ret.vec[1].cap = n

C9_Witness ==
    \E t \in Issued :
        /\ ret.op = "with_capacity" /\ ret.tok = t
        /\ tokens[t].orig.cap = MaxCap
        /\ tokens[t].buf.cap = MaxCap

\* C10: nothing guards a second release.  consume and free_rust on an
\* already consumed token act as on a live one (the vector is returned, the
\* allocator is called with the Buffer's pointer and capacity), and an
\* allocation is released twice only for a token consumed more than once.
C10_Unguarded ==
    /\ \A t \in Issued :
           LET b == tokens[t].buf
           IN  /\ (ret.op = "free_rust" /\ ret.tok = t /\ b.cap > 0) =>
                      ret.calls = <<[ptr |-> b.ptr, cap |-> b.cap]>>
               /\ (ret.op = "consume" /\ ret.tok = t) => ret.vec = Some(Fields(b))
               /\ b.cap > 0 =>
                      tokens[t].drops + Cardinality(Held(t)) = tokens[t].consumes
               /\ tokens[t].consumes <= 1 => tokens[t].drops <= 1
    /\ ~heapOk => \E t \in Issued : tokens[t].consumes > 1

C10_Witness ==
    \E t \in Issued :
        /\ ret.op = "free_rust" /\ ret.tok = t
        /\ tokens[t].consumes = 2
        /\ tokens[t].drops = 2
        /\ ~heapOk

====
